---- MODULE Spec2Model ----
(***************************************************************************)
(* Pedigree engine of broodlist: depth resolver, tree builder, row layout  *)
(* and inbreeding analyzer, as implemented in pedigree.py,                 *)
(* make_pedigree.py and make_pedigree_image.py.                            *)
(***************************************************************************)
EXTENDS Integers, Sequences, FiniteSets, TLC

\* ------------------------------------------------------------------ bounds
NumIds == 4          \* identifiers that may occur in the CSV
MaxGen == 3          \* largest generation bound / generation count tried

\* ------------------------------------------------------------ record store
KeyNames == <<"a", "b", "c", "d", "e", "f">>
Ids == {KeyNames[i] : i \in 1..NumIds}
\* a Sire / Dam cell after (.. or "").strip(): an identifier or the empty string
Cells == Ids \cup {""}
Rows == [Sire : Cells, Dam : Cells]

VARIABLES
  by_pk,        \* the record store: PrimaryKey -> row (load_rows / load_horses)
  pc,           \* "start" before the call, then the name of the call that ran
  arg_pk,       \* the subject / start identifier of the call
  arg_gen,      \* the generation bound / count of the call
  result,       \* what the call returned, or the state of the running call
  stack         \* the frames of the running call, innermost last

vars == <<by_pk, pc, arg_pk, arg_gen, result, stack>>

\* by_pk.get(k) is None
has(d, k) == k \in DOMAIN d

Max(S) == CHOOSE x \in S : \A y \in S : y <= x
SeqMax(s) == Max({s[i] : i \in 1..Len(s)})

\* ------------------------------------------------------ compute_max_depth
RECURSIVE depth_for(_, _, _, _)
\* Variant: the dam's depth appended without the 1 + for the link to her.
depth_for_dam_level(node_pk, store, memo, visiting) ==
  IF node_pk \in DOMAIN memo
  THEN [ret |-> memo[node_pk], memo |-> memo, visiting |-> visiting]
  ELSE IF node_pk \in visiting
  THEN [ret |-> 0, memo |-> memo, visiting |-> visiting]
  ELSE
    LET v1 == visiting \cup {node_pk} IN
    IF ~has(store, node_pk)
    THEN [ret |-> 0, memo |-> memo @@ (node_pk :> 0), visiting |-> v1 \ {node_pk}]
    ELSE
      LET sire == store[node_pk].Sire
          dam  == store[node_pk].Dam
          rs   == IF sire # "" THEN depth_for(sire, store, memo, v1)
                  ELSE [ret |-> 0, memo |-> memo, visiting |-> v1]
          d1   == IF sire # "" THEN <<0, 1 + rs.ret>> ELSE <<0>>
          rd   == IF dam # "" THEN depth_for(dam, store, rs.memo, rs.visiting)
                  ELSE [ret |-> 0, memo |-> rs.memo, visiting |-> rs.visiting]
          depths == IF dam # "" THEN Append(d1, rd.ret) ELSE d1
          max_depth == SeqMax(depths)
      IN [ret |-> max_depth,
          memo |-> (node_pk :> max_depth) @@ rd.memo,
          visiting |-> rd.visiting \ {node_pk}]

depth_for(node_pk, store, memo, visiting) ==
  IF node_pk \in DOMAIN memo
  THEN [ret |-> memo[node_pk], memo |-> memo, visiting |-> visiting]
  ELSE IF node_pk \in visiting
  THEN [ret |-> 0, memo |-> memo, visiting |-> visiting]
  ELSE
    LET v1 == visiting \cup {node_pk} IN
    IF ~has(store, node_pk)
    THEN [ret |-> 0, memo |-> memo @@ (node_pk :> 0), visiting |-> v1 \ {node_pk}]
    ELSE
      LET sire == store[node_pk].Sire
          dam  == store[node_pk].Dam
          rs   == IF sire # "" THEN depth_for(sire, store, memo, v1)
                  ELSE [ret |-> 0, memo |-> memo, visiting |-> v1]
          d1   == IF sire # "" THEN <<0, 1 + rs.ret>> ELSE <<0>>
          rd   == IF dam # "" THEN depth_for(dam, store, rs.memo, rs.visiting)
                  ELSE [ret |-> 0, memo |-> rs.memo, visiting |-> rs.visiting]
          depths == IF dam # "" THEN Append(d1, 1 + rd.ret) ELSE d1
          max_depth == SeqMax(depths)
      IN [ret |-> max_depth,
          memo |-> (node_pk :> max_depth) @@ rd.memo,
          visiting |-> rd.visiting \ {node_pk}]

compute_max_depth(pk, store) == depth_for(pk, store, <<>>, {}).ret

\* Variant: the memo table and the visiting set of the call before are kept.
new_locals_kept(left) == [memo |-> left.memo, visiting |-> left.visiting]

\* memo = {}; visiting = set(): the locals of a new call, whatever the call
\* before it left behind
new_locals(left) == [memo |-> <<>>, visiting |-> {}]

\* one call in a run of calls: its value and the locals it leaves behind
compute_max_depth_call(pk, store, left) ==
  LET locals == new_locals(left)
      r == depth_for(pk, store, locals.memo, locals.visiting)
  IN [pk |-> pk, ret |-> r.ret, memo |-> r.memo, visiting |-> r.visiting]

\* ------------------------------------------------- Python dict and list
\* A dict is kept as the sequence of its items in insertion order.
DictHas(d, k) == \E i \in 1..Len(d) : d[i].key = k
DictGet(d, k) == d[CHOOSE i \in 1..Len(d) : d[i].key = k].val
DictKeys(d) == [i \in 1..Len(d) |-> d[i].key]
KeySet(d) == {d[i].key : i \in 1..Len(d)}
\* d.setdefault(k, []).append(x)
SetDefaultAppend(d, k, x) ==
  IF DictHas(d, k)
  THEN [i \in 1..Len(d) |->
          IF d[i].key = k THEN [key |-> k, val |-> Append(d[i].val, x)] ELSE d[i]]
  ELSE Append(d, [key |-> k, val |-> <<x>>])

\* x in lst
InList(x, lst) == \E i \in 1..Len(lst) : lst[i] = x
\* lst.index(x): position of the first element equal to x (0-based)
ListIndex(lst, x) == (CHOOSE i \in 1..Len(lst) :
                        lst[i] = x /\ \A j \in 1..(i - 1) : lst[j] # x) - 1

\* sorted(gens, reverse=True): position k holds the value v with fewer than
\* k elements above it and at least k elements not below it
SortedReverse(s) ==
  [k \in 1..Len(s) |->
     CHOOSE v \in {s[i] : i \in 1..Len(s)} :
       /\ Cardinality({i \in 1..Len(s) : s[i] > v}) < k
       /\ k <= Cardinality({i \in 1..Len(s) : ~(s[i] < v)})]

\* 2 ** n
RECURSIVE Pow2(_)
Pow2(n) == IF n <= 0 THEN 1 ELSE 2 * Pow2(n - 1)

\* Percentages are sums of negative powers of two times 100.0, exact in
\* binary floating point; they are kept as numerators over PctDen.
PctDen == Pow2(MaxGen)
\* (0.5 ** g) as a numerator over PctDen
HalfPow(g) == Pow2(MaxGen - g)
RECURSIVE SumSeq(_)
SumSeq(s) == IF Len(s) = 0 THEN 0 ELSE s[1] + SumSeq(Tail(s))

\* ------------------------------- collect_inbreeding (make_pedigree.py)
RECURSIVE walk(_, _, _, _, _, _, _)
walk(node_pk, gen, path, visiting, occurrences, store, max_depth) ==
  IF gen > max_depth
  THEN [occurrences |-> occurrences, visiting |-> visiting]
  ELSE IF node_pk \in visiting
  THEN [occurrences |-> occurrences, visiting |-> visiting]
  ELSE
    LET v1 == visiting \cup {node_pk}
        new_path == path \o <<node_pk>>
        occ1 == SetDefaultAppend(occurrences, node_pk,
                                 [gen |-> gen, path |-> new_path])
    IN
    IF ~has(store, node_pk)
    THEN [occurrences |-> occ1, visiting |-> v1 \ {node_pk}]
    ELSE
      LET sire == store[node_pk].Sire
          dam  == store[node_pk].Dam
          rs == IF gen < max_depth /\ sire # ""
                THEN walk(sire, gen + 1, new_path, v1, occ1, store, max_depth)
                ELSE [occurrences |-> occ1, visiting |-> v1]
          rd == IF gen < max_depth /\ dam # ""
                THEN walk(dam, gen + 1, new_path, rs.visiting, rs.occurrences,
                          store, max_depth)
                ELSE rs
      IN [occurrences |-> rd.occurrences, visiting |-> rd.visiting \ {node_pk}]

\* the two top-level walks, each with a fresh visiting set
walk_from_subject(pk, store, max_depth) ==
  IF ~has(store, pk) THEN <<>>
  ELSE
    LET sire == store[pk].Sire
        dam  == store[pk].Dam
        o1 == IF sire # "" THEN walk(sire, 1, <<>>, {}, <<>>, store, max_depth).occurrences
              ELSE <<>>
    IN IF dam # "" THEN walk(dam, 1, <<>>, {}, o1, store, max_depth).occurrences
       ELSE o1

\* Variant: the sum of the powers without the factor 100.0.
percentage_of_unscaled(gens) == SumSeq([i \in 1..Len(gens) |-> HalfPow(gens[i])])

\* percentage = sum((0.5**g) for g in gens) * 100.0
percentage_of(gens) == SumSeq([i \in 1..Len(gens) |-> HalfPow(gens[i])]) * 100

\* the aggregation loop: one inbred entry per ancestor with >= 2 occurrences
inbred_entry(item) ==
  LET occs == item.val
      gens == [i \in 1..Len(occs) |-> occs[i].gen]
  IN [key |-> item.key,
      val |-> [gens |-> SortedReverse(gens),
               percentage |-> percentage_of(gens),
               paths |-> [i \in 1..Len(occs) |-> occs[i].path]]]

\* Variant: an entry for every ancestor met, without the len(occs) < 2 test.
aggregate_every(occurrences) ==
  [i \in 1..Len(occurrences) |-> inbred_entry(occurrences[i])]

aggregate(occurrences) ==
  LET kept == SelectSeq(occurrences, LAMBDA item : ~(Len(item.val) < 2))
  IN [i \in 1..Len(kept) |-> inbred_entry(kept[i])]

\* the innermost loop: for path in inbred[ancestor]["paths"], with its breaks
RECURSIVE all_contained(_, _, _, _)
\* Variant: all_contained left True as soon as one path holds other.
all_contained_once(paths, i, ancestor, other) ==
  \E k \in i..Len(paths) : InList(other, paths[k])

all_contained(paths, i, ancestor, other) ==
  IF i > Len(paths) THEN TRUE
  ELSE IF ~InList(other, paths[i]) THEN FALSE
  ELSE IF ListIndex(paths[i], other) > ListIndex(paths[i], ancestor) THEN FALSE
  ELSE all_contained(paths, i + 1, ancestor, other)

\* the middle loop: for other in candidates, TRUE when it reaches subsumed.add
RECURSIVE is_subsumed(_, _, _, _)
is_subsumed(inbred, candidates, j, ancestor) ==
  IF j > Len(candidates) THEN FALSE
  ELSE IF ancestor = candidates[j] THEN is_subsumed(inbred, candidates, j + 1, ancestor)
  ELSE IF all_contained(DictGet(inbred, ancestor).paths, 1, ancestor, candidates[j])
  THEN TRUE
  ELSE is_subsumed(inbred, candidates, j + 1, ancestor)

\* Variant: the loops without "if ancestor == other: continue", where every
\* candidate is contained in its own paths.
subsumed_of_self(inbred) ==
  LET candidates == DictKeys(inbred)
  IN {candidates[i] : i \in 1..Len(candidates)}

\* the outer loop: for ancestor in candidates
subsumed_of(inbred) ==
  LET candidates == DictKeys(inbred)
  IN {candidates[i] : i \in {k \in 1..Len(candidates) :
                               is_subsumed(inbred, candidates, 1, candidates[k])}}

collect_inbreeding(pk, store, max_depth) ==
  LET occurrences == walk_from_subject(pk, store, max_depth)
      inbred == aggregate(occurrences)
  IN [occurrences |-> occurrences, inbred |-> inbred, subsumed |-> subsumed_of(inbred)]

\* ------------------------- collect_inbreeding (make_pedigree_image.py)
RECURSIVE walk_side(_, _, _, _, _, _, _, _)
walk_side(node_pk, gen, path, visiting, side, occurrences, store, max_depth) ==
  IF gen > max_depth
  THEN [occurrences |-> occurrences, visiting |-> visiting]
  ELSE IF node_pk \in visiting
  THEN [occurrences |-> occurrences, visiting |-> visiting]
  ELSE
    LET v1 == visiting \cup {node_pk}
        new_path == path \o <<node_pk>>
        occ1 == SetDefaultAppend(occurrences, node_pk,
                                 [gen |-> gen, path |-> new_path, side |-> side])
    IN
    IF ~has(store, node_pk)
    THEN [occurrences |-> occ1, visiting |-> v1 \ {node_pk}]
    ELSE
      LET sire == store[node_pk].Sire
          dam  == store[node_pk].Dam
          rs == IF gen < max_depth /\ sire # ""
                THEN walk_side(sire, gen + 1, new_path, v1, side, occ1, store, max_depth)
                ELSE [occurrences |-> occ1, visiting |-> v1]
          rd == IF gen < max_depth /\ dam # ""
                THEN walk_side(dam, gen + 1, new_path, rs.visiting, side,
                               rs.occurrences, store, max_depth)
                ELSE rs
      IN [occurrences |-> rd.occurrences, visiting |-> rd.visiting \ {node_pk}]

walk_side_from_subject(pk, store, max_depth) ==
  IF ~has(store, pk) THEN <<>>
  ELSE
    LET sire == store[pk].Sire
        dam  == store[pk].Dam
        o1 == IF sire # ""
              THEN walk_side(sire, 1, <<>>, {}, "Sire", <<>>, store, max_depth).occurrences
              ELSE <<>>
    IN IF dam # ""
       THEN walk_side(dam, 1, <<>>, {}, "Dam", o1, store, max_depth).occurrences
       ELSE o1

\* Variant: "both" only when the two walks met the ancestor equally often.
inbred_type_balanced(occs) ==
  LET sires == {i \in 1..Len(occs) : occs[i].side = "Sire"}
      dams  == {i \in 1..Len(occs) : occs[i].side = "Dam"}
  IN IF Cardinality(sires) > Cardinality(dams) THEN "sire"
     ELSE IF Cardinality(dams) > Cardinality(sires) THEN "dam"
     ELSE "both"

\* the branch tag of one retained ancestor
inbred_type(occs) ==
  LET sides == {occs[i].side : i \in 1..Len(occs)}
  IN IF sides = {"Sire"} THEN "sire"
     ELSE IF sides = {"Dam"} THEN "dam"
     ELSE "both"

inbred_types_of(occurrences) ==
  LET kept == SelectSeq(occurrences, LAMBDA item : ~(Len(item.val) < 2))
  IN [i \in 1..Len(kept) |-> [key |-> kept[i].key, val |-> inbred_type(kept[i].val)]]

collect_inbreeding_image(pk, store, max_depth) ==
  LET occurrences == walk_side_from_subject(pk, store, max_depth)
      inbred == aggregate(occurrences)
  IN [occurrences |-> occurrences, inbred |-> inbred,
      subsumed |-> subsumed_of(inbred),
      inbred_types |-> inbred_types_of(occurrences)]

\* ------------------------------------------------ pedigree.py: the tree
UNKNOWN_HORSE ==
  [key |-> "UNKNOWN", sire |-> "", dam |-> "", name |-> "Unknown", is_placeholder |-> FALSE]

placeholder_horse ==
  [key |-> "", sire |-> "", dam |-> "", name |-> "", is_placeholder |-> TRUE]

\* the Horse load_horses makes of a row (Sire / Dam "" stand for None)
horse_of(store, key) ==
  [key |-> key, sire |-> store[key].Sire, dam |-> store[key].Dam,
   name |-> key, is_placeholder |-> FALSE]

\* PedigreeNode(horse=horse, depth=depth); sire / dam 0 stand for None
PedigreeNode(horse, depth) ==
  [horse |-> horse, sire |-> 0, dam |-> 0, row_start |-> 0, row_end |-> 0, depth |-> depth]

\* Node objects live in a heap, a node's reference is its allocation number.
RECURSIVE build_node(_, _, _, _, _)
\* Variant: one generation too many (depth < generations).
build_node_deeper(heap, horse, depth, horses, generations) ==
  LET node == Len(heap) + 1
      h0 == Append(heap, PedigreeNode(horse, depth))
  IN
  IF depth < generations
  THEN
    LET sire_key == horse.sire
        dam_key  == horse.dam
        sire_horse == IF sire_key # "" /\ has(horses, sire_key)
                      THEN horse_of(horses, sire_key) ELSE placeholder_horse
        dam_horse  == IF dam_key # "" /\ has(horses, dam_key)
                      THEN horse_of(horses, dam_key) ELSE placeholder_horse
        rs == build_node(h0, sire_horse, depth + 1, horses, generations)
        rd == build_node(rs.heap, dam_horse, depth + 1, horses, generations)
    IN [heap |-> [rd.heap EXCEPT ![node].sire = rs.node, ![node].dam = rd.node],
        node |-> node]
  ELSE [heap |-> h0, node |-> node]

build_node(heap, horse, depth, horses, generations) ==
  LET node == Len(heap) + 1
      h0 == Append(heap, PedigreeNode(horse, depth))
  IN
  IF depth < generations - 1
  THEN
    LET sire_key == horse.sire
        dam_key  == horse.dam
        sire_horse == IF sire_key # "" /\ has(horses, sire_key)
                      THEN horse_of(horses, sire_key) ELSE placeholder_horse
        dam_horse  == IF dam_key # "" /\ has(horses, dam_key)
                      THEN horse_of(horses, dam_key) ELSE placeholder_horse
        rs == build_node(h0, sire_horse, depth + 1, horses, generations)
        rd == build_node(rs.heap, dam_horse, depth + 1, horses, generations)
    IN [heap |-> [rd.heap EXCEPT ![node].sire = rs.node, ![node].dam = rd.node],
        node |-> node]
  ELSE [heap |-> h0, node |-> node]

\* Variant: a placeholder, not UNKNOWN_HORSE, for a root without a record.
build_tree_placeholder_root(horses, key, generations) ==
  LET root_horse == IF has(horses, key) THEN horse_of(horses, key) ELSE placeholder_horse
  IN build_node(<<>>, root_horse, 0, horses, generations)

build_tree(horses, key, generations) ==
  LET root_horse == IF has(horses, key) THEN horse_of(horses, key) ELSE UNKNOWN_HORSE
  IN build_node(<<>>, root_horse, 0, horses, generations)

RECURSIVE assign_rows(_, _, _, _)
\* Variant: an inner node takes both ends of its span from its sire child.
assign_rows_sire_span(heap, node, leaf_index, generations) ==
  IF heap[node].depth >= generations - 1 \/ (heap[node].sire = 0 /\ heap[node].dam = 0)
  THEN [heap |-> [heap EXCEPT ![node].row_start = leaf_index,
                              ![node].row_end = leaf_index],
        ret |-> leaf_index + 1]
  ELSE
    LET rs == IF heap[node].sire # 0
              THEN assign_rows(heap, heap[node].sire, leaf_index, generations)
              ELSE [heap |-> heap, ret |-> leaf_index]
        rd == IF heap[node].dam # 0
              THEN assign_rows(rs.heap, heap[node].dam, rs.ret, generations)
              ELSE rs
        h == rd.heap
        row_start == IF h[node].sire # 0 THEN h[h[node].sire].row_start
                     ELSE h[h[node].dam].row_start
        row_end == IF h[node].sire # 0 THEN h[h[node].sire].row_end
                   ELSE h[h[node].dam].row_end
    IN [heap |-> [h EXCEPT ![node].row_start = row_start, ![node].row_end = row_end],
        ret |-> rd.ret]

assign_rows(heap, node, leaf_index, generations) ==
  IF heap[node].depth >= generations - 1 \/ (heap[node].sire = 0 /\ heap[node].dam = 0)
  THEN [heap |-> [heap EXCEPT ![node].row_start = leaf_index,
                              ![node].row_end = leaf_index],
        ret |-> leaf_index + 1]
  ELSE
    LET rs == IF heap[node].sire # 0
              THEN assign_rows(heap, heap[node].sire, leaf_index, generations)
              ELSE [heap |-> heap, ret |-> leaf_index]
        rd == IF heap[node].dam # 0
              THEN assign_rows(rs.heap, heap[node].dam, rs.ret, generations)
              ELSE rs
        h == rd.heap
        row_start == IF h[node].sire # 0 THEN h[h[node].sire].row_start
                     ELSE h[h[node].dam].row_start
        row_end == IF h[node].dam # 0 THEN h[h[node].dam].row_end
                   ELSE h[h[node].sire].row_end
    IN [heap |-> [h EXCEPT ![node].row_start = row_start, ![node].row_end = row_end],
        ret |-> rd.ret]

\* ----------------------------------------------------- the entry points
Min2(a, b) == IF a <= b THEN a ELSE b
Max2(a, b) == IF a >= b THEN a ELSE b

\* clamp_depth with an integer requested_depth (main always passes one)
clamp_depth(pk, store, requested_depth) ==
  LET max_depth == compute_max_depth(pk, store)
  IN Max2(0, Min2(max_depth, requested_depth))

excel_row_limit == 1048576

\* what a run of an entry point left behind: how it ended, whether a tree
\* was built, whether the inbreeding was computed, whether output was written
Outcome(exit, message, tree, inbreeding, written) ==
  [exit |-> exit, message |-> message, tree |-> tree,
   inbreeding |-> inbreeding, written |-> written]

\* pedigree.main: build_tree, assign_rows, build_html, write_text.
\* render_pedigree does range(2 ** (generations - 1)), a TypeError for the
\* float that a negative exponent gives.
pedigree_main(store, root, generations) ==
  LET built == build_tree(store, root, generations)
      rows == assign_rows(built.heap, built.node, 0, generations)
      tree == <<[heap |-> rows.heap, node |-> built.node]>>
  IN IF generations - 1 < 0
     THEN Outcome("TypeError", "range", tree, <<>>, FALSE)
     ELSE Outcome("ok", "", tree, <<>>, TRUE)

\* ---- the cells of write_excel
\* Variant: the middle row rounded up.
mid_up(row_start, row_end) == (row_start + row_end + 1) \div 2

\* mid = (row_start + row_end) // 2
mid(row_start, row_end) == (row_start + row_end) \div 2

\* place_node: the calls made, in order, the visiting set, and how the
\* placing ended: visiting.remove(node_pk) raises KeyError when an inner
\* call for the same identifier has removed it already.  Each call also
\* tells the call that made it (from, 0 for write_excel itself) and the
\* parent cell it was made for (via).
RECURSIVE place_node(_, _, _, _, _, _, _, _, _)
place_node(st, node_pk, gen, row_start, row_end, from, via, store, max_depth) ==
  LET me == Len(st.calls) + 1
      s1 == [st EXCEPT !.calls = Append(@,
               [node_pk |-> node_pk, gen |-> gen, row_start |-> row_start,
                row_end |-> row_end, from |-> from, via |-> via,
                note |-> IF node_pk \in st.visiting THEN "cycle" ELSE ""])]
  IN
  IF ~has(store, node_pk) \/ gen >= max_depth - 1 THEN s1
  ELSE
    LET sire == store[node_pk].Sire
        dam  == store[node_pk].Dam
    IN IF sire = "" /\ dam = "" THEN s1
       ELSE
         LET m  == mid(row_start, row_end)
             s2 == [s1 EXCEPT !.visiting = @ \cup {node_pk}]
             ss == IF sire # ""
                   THEN place_node(s2, sire, gen + 1, row_start, m, me, "Sire",
                                   store, max_depth)
                   ELSE s2
             sd == IF ss.exit = "ok" /\ dam # ""
                   THEN place_node(ss, dam, gen + 1, m + 1, row_end, me, "Dam",
                                   store, max_depth)
                   ELSE ss
         IN IF sd.exit # "ok" THEN sd
            ELSE IF node_pk \notin sd.visiting THEN [sd EXCEPT !.exit = "KeyError"]
            ELSE [sd EXCEPT !.visiting = @ \ {node_pk}]

\* the placing of write_excel: visiting = set() and the two top-level calls
place_nodes(pk, store, max_depth) ==
  LET st0 == [calls |-> <<>>, visiting |-> {}, exit |-> "ok"]
      total_rows == IF max_depth > 0 THEN Pow2(max_depth) ELSE 1
  IN
  IF max_depth > 0 /\ has(store, pk) /\ {store[pk].Sire, store[pk].Dam} # {""}
  THEN
    LET m  == mid(0, total_rows - 1)
        ss == IF store[pk].Sire # ""
              THEN place_node(st0, store[pk].Sire, 0, 0, m, 0, "Sire", store, max_depth)
              ELSE st0
    IN IF ss.exit = "ok" /\ store[pk].Dam # ""
       THEN place_node(ss, store[pk].Dam, 0, m + 1, total_rows - 1, 0, "Dam",
                       store, max_depth)
       ELSE ss
  ELSE st0

\* write_excel up to wb.save
write_excel(pk, store, max_depth) ==
  LET total_rows == IF max_depth > 0 THEN Pow2(max_depth) ELSE 1
      inbreeding == <<collect_inbreeding(pk, store, max_depth)>>
  IN IF total_rows + 2 > excel_row_limit
     THEN Outcome("SystemExit", "Too many rows for Excel", <<>>, <<>>, FALSE)
     ELSE IF place_nodes(pk, store, max_depth).exit # "ok"
     THEN Outcome("KeyError", "visiting.remove", <<>>, inbreeding, FALSE)
     ELSE Outcome("ok", "", <<>>, inbreeding, TRUE)

\* Variant: a main that also refuses a store in which a parent cell names an
\* identifier without a record.
make_pedigree_main_strict(store, pk, gen) ==
  IF pk = ""
  THEN Outcome("SystemExit", "PrimaryKey is required.", <<>>, <<>>, FALSE)
  ELSE IF ~has(store, pk)
  THEN Outcome("SystemExit", "PrimaryKey not found in CSV", <<>>, <<>>, FALSE)
  ELSE IF \E k \in DOMAIN store :
            \E c \in {store[k].Sire, store[k].Dam} : c # "" /\ ~has(store, c)
  THEN Outcome("SystemExit", "Parent not found in CSV", <<>>, <<>>, FALSE)
  ELSE IF gen < 0
  THEN Outcome("SystemExit", "Generations must be >= 0.", <<>>, <<>>, FALSE)
  ELSE write_excel(pk, store, clamp_depth(pk, store, gen))

\* make_pedigree.main with pk and --gen given on the command line
make_pedigree_main(store, pk, gen) ==
  IF pk = ""
  THEN Outcome("SystemExit", "PrimaryKey is required.", <<>>, <<>>, FALSE)
  ELSE IF ~has(store, pk)
  THEN Outcome("SystemExit", "PrimaryKey not found in CSV", <<>>, <<>>, FALSE)
  ELSE IF gen < 0
  THEN Outcome("SystemExit", "Generations must be >= 0.", <<>>, <<>>, FALSE)
  ELSE write_excel(pk, store, clamp_depth(pk, store, gen))

\* draw_chart up to fig.savefig
draw_chart(pk, store, max_depth) ==
  IF max_depth <= 0
  THEN Outcome("SystemExit", "Generations must be at least 1 for the circular chart.",
               <<>>, <<>>, FALSE)
  ELSE
    LET inbreeding == <<collect_inbreeding_image(pk, store, max_depth)>>
    IN IF ~has(store, pk)
       THEN Outcome("SystemExit", "PrimaryKey not found in CSV", <<>>, inbreeding, FALSE)
       ELSE Outcome("ok", "", <<>>, inbreeding, TRUE)

\* ---- the wedges of draw_chart
\* Angles are kept as whole multiples of a right angle / 2^MaxGen, so that
\* every (angle_start + angle_end) / 2 the chart computes is exact.
radians(degrees) == (degrees * Pow2(MaxGen)) \div 90

\* Variant: the sire's wedge in the first half of the parent's sector.
sire_range_first(angle_start, angle_end) ==
  <<angle_start, (angle_start + angle_end) \div 2>>

\* sire_range = (mid, angle_end), in both branches of the if
sire_range(angle_start, angle_end) ==
  <<(angle_start + angle_end) \div 2, angle_end>>

\* dam_range = (angle_start, mid), in both branches of the if
dam_range(angle_start, angle_end) ==
  <<angle_start, (angle_start + angle_end) \div 2>>

\* draw_wedge: the wedges drawn, in drawing order.  Each wedge also tells
\* the wedge whose call drew it (from, 0 for draw_chart itself) and the
\* parent cell it was drawn for (via).
RECURSIVE draw_wedge(_, _, _, _, _, _, _, _, _)
draw_wedge(wedges, node_pk, gen, angle_start, angle_end, from, via, store, max_depth) ==
  LET me == Len(wedges) + 1
      drawn == Append(wedges, [node_pk |-> node_pk, gen |-> gen,
                               angle_start |-> angle_start, angle_end |-> angle_end,
                               from |-> from, via |-> via])
  IN
  IF gen >= max_depth THEN drawn
  ELSE IF ~has(store, node_pk) THEN drawn
  ELSE
    LET sire == store[node_pk].Sire
        dam  == store[node_pk].Dam
        sr == sire_range(angle_start, angle_end)
        dr == dam_range(angle_start, angle_end)
    IN IF sire = "" /\ dam = "" THEN drawn
       ELSE
         LET ws == IF sire # ""
                   THEN draw_wedge(drawn, sire, gen + 1, sr[1], sr[2], me, "Sire",
                                   store, max_depth)
                   ELSE drawn
         IN IF dam # ""
            THEN draw_wedge(ws, dam, gen + 1, dr[1], dr[2], me, "Dam", store, max_depth)
            ELSE ws

\* the wedges of a chart that draw_chart completes
draw_chart_wedges(pk, store, max_depth) ==
  IF max_depth <= 0 \/ ~has(store, pk) THEN <<>>
  ELSE
    LET sire == store[pk].Sire
        dam  == store[pk].Dam
        ws == IF sire # ""
              THEN draw_wedge(<<>>, sire, 1, radians(90), radians(270), 0, "Sire",
                              store, max_depth)
              ELSE <<>>
    IN IF dam # ""
       THEN draw_wedge(ws, dam, 1, radians(0 - 90), radians(90), 0, "Dam", store, max_depth)
       ELSE ws

\* make_pedigree_image.main with pk and --gen given on the command line
make_pedigree_image_main(store, pk, gen) ==
  IF pk = ""
  THEN Outcome("SystemExit", "PrimaryKey is required.", <<>>, <<>>, FALSE)
  ELSE IF gen < 1
  THEN Outcome("SystemExit", "Generations must be >= 1.", <<>>, <<>>, FALSE)
  ELSE draw_chart(pk, store, clamp_depth(pk, store, gen))

\* ------------------------------------------ the recursions, step by step
\* A frame is one activation of a nested function; "at" tells where it
\* stands: "enter" before its first statement, "sire" / "dam" while the
\* recursive call it made for that parent runs.  A step of the innermost
\* frame either returns a value, or calls and leaves the frame behind, or
\* stays in the frame.
RecursionLimit == 8

Ret(st, val) == [op |-> "return", st |-> [st EXCEPT !.ret = val]]
Call(st, frame, callee) == [op |-> "call", st |-> st, frame |-> frame, callee |-> callee]

\* depth_for, a frame of compute_max_depth
DepthFrame(node_pk) == [fn |-> "depth_for", node_pk |-> node_pk, at |-> "enter", depths |-> <<>>]

depth_for_exit(f, st) ==
  LET max_depth == SeqMax(f.depths)
  IN Ret([st EXCEPT !.memo = (f.node_pk :> max_depth) @@ @,
                    !.visiting = @ \ {f.node_pk}], max_depth)

depth_for_dam(f, st, store) ==
  IF store[f.node_pk].Dam # ""
  THEN Call(st, [f EXCEPT !.at = "dam"], DepthFrame(store[f.node_pk].Dam))
  ELSE depth_for_exit(f, st)

depth_for_sire(f, st, store) ==
  IF store[f.node_pk].Sire # ""
  THEN Call(st, [f EXCEPT !.at = "sire"], DepthFrame(store[f.node_pk].Sire))
  ELSE depth_for_dam(f, st, store)

\* Variant: depth_for without the "if node_pk in visiting: return 0" guard.
depth_for_enter_unguarded(f, st, store) ==
  IF f.node_pk \in DOMAIN st.memo THEN Ret(st, st.memo[f.node_pk])
  ELSE IF ~has(store, f.node_pk)
  THEN Ret([st EXCEPT !.memo = @ @@ (f.node_pk :> 0),
                      !.visiting = (@ \cup {f.node_pk}) \ {f.node_pk}], 0)
  ELSE depth_for_sire([f EXCEPT !.depths = <<0>>],
                      [st EXCEPT !.visiting = @ \cup {f.node_pk}], store)

depth_for_enter(f, st, store) ==
  IF f.node_pk \in DOMAIN st.memo THEN Ret(st, st.memo[f.node_pk])
  ELSE IF f.node_pk \in st.visiting THEN Ret(st, 0)
  ELSE IF ~has(store, f.node_pk)
  THEN Ret([st EXCEPT !.memo = @ @@ (f.node_pk :> 0),
                      !.visiting = (@ \cup {f.node_pk}) \ {f.node_pk}], 0)
  ELSE depth_for_sire([f EXCEPT !.depths = <<0>>],
                      [st EXCEPT !.visiting = @ \cup {f.node_pk}], store)

depth_for_resume(f, st, store) ==
  LET f1 == [f EXCEPT !.depths = Append(@, 1 + st.ret)]
  IN IF f.at = "sire" THEN depth_for_dam(f1, st, store) ELSE depth_for_exit(f1, st)

\* walk, a frame of collect_inbreeding (make_pedigree.py)
WalkFrame(node_pk, gen, path) ==
  [fn |-> "walk", node_pk |-> node_pk, gen |-> gen, path |-> path,
   new_path |-> <<>>, at |-> "enter"]

\* Variant: walk returning without visiting.remove(node_pk).
walk_exit_keep(f, st) == Ret(st, 0)

walk_exit(f, st) == Ret([st EXCEPT !.visiting = @ \ {f.node_pk}], 0)

walk_dam(f, st, store, max_depth) ==
  IF f.gen < max_depth /\ store[f.node_pk].Dam # ""
  THEN Call(st, [f EXCEPT !.at = "dam"],
            WalkFrame(store[f.node_pk].Dam, f.gen + 1, f.new_path))
  ELSE walk_exit(f, st)

walk_sire(f, st, store, max_depth) ==
  IF f.gen < max_depth /\ store[f.node_pk].Sire # ""
  THEN Call(st, [f EXCEPT !.at = "sire"],
            WalkFrame(store[f.node_pk].Sire, f.gen + 1, f.new_path))
  ELSE walk_dam(f, st, store, max_depth)

walk_enter(f, st, store, max_depth) ==
  IF f.gen > max_depth THEN Ret(st, 0)
  ELSE IF f.node_pk \in st.visiting THEN Ret(st, 0)
  ELSE
    LET new_path == f.path \o <<f.node_pk>>
        st1 == [st EXCEPT !.visiting = @ \cup {f.node_pk},
                          !.occurrences = SetDefaultAppend(@, f.node_pk,
                                            [gen |-> f.gen, path |-> new_path])]
    IN IF ~has(store, f.node_pk) THEN walk_exit(f, st1)
       ELSE walk_sire([f EXCEPT !.new_path = new_path], st1, store, max_depth)

walk_resume(f, st, store, max_depth) ==
  IF f.at = "sire" THEN walk_dam(f, st, store, max_depth) ELSE walk_exit(f, st)

\* the body of collect_inbreeding around the two top-level walks
BodyFrame(pk) == [fn |-> "collect_inbreeding", node_pk |-> pk, at |-> "enter"]

\* the second loop, over the candidates of the finished inbred map
body_subsume(f, st) == Ret([st EXCEPT !.subsumed = subsumed_of(st.inbred)], 0)

\* the first loop, over the recorded occurrences; the frame stays for the
\* second loop
body_aggregate(f, st) ==
  [op |-> "stay", st |-> [st EXCEPT !.inbred = aggregate(st.occurrences)],
   frame |-> [f EXCEPT !.at = "subsume"]]

body_dam(f, st, store) ==
  IF has(store, f.node_pk) /\ store[f.node_pk].Dam # ""
  THEN Call([st EXCEPT !.visiting = {}], [f EXCEPT !.at = "dam"],
            WalkFrame(store[f.node_pk].Dam, 1, <<>>))
  ELSE body_aggregate(f, st)

body_enter(f, st, store) ==
  IF has(store, f.node_pk) /\ store[f.node_pk].Sire # ""
  THEN Call([st EXCEPT !.visiting = {}], [f EXCEPT !.at = "sire"],
            WalkFrame(store[f.node_pk].Sire, 1, <<>>))
  ELSE body_dam(f, st, store)

body_resume(f, st, store) ==
  IF f.at = "sire" THEN body_dam(f, st, store)
  ELSE IF f.at = "dam" THEN body_aggregate(f, st)
  ELSE body_subsume(f, st)

\* build_node, a frame of build_tree
BuildFrame(horse, depth) ==
  [fn |-> "build_node", horse |-> horse, depth |-> depth, node |-> 0, at |-> "enter"]

ParentHorse(horses, key) ==
  IF key # "" /\ has(horses, key) THEN horse_of(horses, key) ELSE placeholder_horse

build_node_enter(f, st, horses, generations) ==
  LET node == Len(st.heap) + 1
      st1 == [st EXCEPT !.heap = Append(@, PedigreeNode(f.horse, f.depth))]
  IN IF f.depth < generations - 1
     THEN Call(st1, [f EXCEPT !.node = node, !.at = "sire"],
               BuildFrame(ParentHorse(horses, f.horse.sire), f.depth + 1))
     ELSE Ret(st1, node)

build_node_resume(f, st, horses) ==
  IF f.at = "sire"
  THEN Call([st EXCEPT !.heap[f.node].sire = st.ret], [f EXCEPT !.at = "dam"],
            BuildFrame(ParentHorse(horses, f.horse.dam), f.depth + 1))
  ELSE Ret([st EXCEPT !.heap[f.node].dam = st.ret], f.node)

\* ------------------------------------------------------------------ system
\* Stores are enumerated up to renaming of identifiers: the subject is
\* KeyNames[1], identifiers are named in the order in which a breadth-first
\* reading of the rows from the subject first meets them, and only
\* identifiers met that way have a row (no call reads any other row).
IdxOf == [cell \in Cells |->
            IF cell = "" THEN 0 ELSE CHOOSE j \in 1..NumIds : KeyNames[j] = cell]
Bigger(a, b) == IF a >= b THEN a ELSE b

\* the largest identifier index met once rows 1..i have been read
RECURSIVE SeenAfter(_, _)
SeenAfter(store, i) ==
  IF i = 0 THEN 1
  ELSE IF KeyNames[i] \in DOMAIN store
  THEN Bigger(SeenAfter(store, i - 1),
              Bigger(IdxOf[store[KeyNames[i]].Sire], IdxOf[store[KeyNames[i]].Dam]))
  ELSE SeenAfter(store, i - 1)

Canonical(store) ==
  \A i \in 1..NumIds :
    KeyNames[i] \in DOMAIN store =>
      LET seen == SeenAfter(store, i - 1)
          s == IdxOf[store[KeyNames[i]].Sire]
          d == IdxOf[store[KeyNames[i]].Dam]
      IN i <= seen /\ s <= seen + 1 /\ d <= Bigger(seen, s) + 1

Subject == KeyNames[1]
Bounds == 0..MaxGen

\* before the CSV is read
Init ==
  /\ by_pk = <<>>
  /\ pc = "load"
  /\ arg_pk = ""
  /\ arg_gen = 0
  /\ result = <<>>
  /\ stack = <<>>

\* by_pk = load_rows(csv_path) / horses = load_horses(args.csv)
LoadRows ==
  /\ pc = "load"
  /\ \E K \in SUBSET Ids : by_pk' \in [K -> Rows]
  /\ Canonical(by_pk')
  /\ pc' = "start"
  /\ UNCHANGED <<arg_pk, arg_gen, result, stack>>

\* The step-by-step runs read stores of at most StepRows rows.
StepRows == 3

LoadRowsSteps ==
  /\ pc = "load"
  /\ \E K \in {S \in SUBSET Ids : Cardinality(S) <= StepRows} : by_pk' \in [K -> Rows]
  /\ Canonical(by_pk')
  /\ pc' = "start"
  /\ UNCHANGED <<arg_pk, arg_gen, result, stack>>

CallComputeMaxDepth ==
  /\ pc = "start"
  /\ \E pk \in Ids :
       /\ arg_pk' = pk
       /\ result' = [depth |-> compute_max_depth(pk, by_pk)]
  /\ pc' = "compute_max_depth"
  /\ UNCHANGED <<by_pk, arg_gen, stack>>

CallCollectInbreeding ==
  /\ pc = "start"
  /\ \E m \in Bounds :
       /\ arg_gen' = m
       /\ result' = collect_inbreeding(Subject, by_pk, m)
  /\ arg_pk' = Subject
  /\ pc' = "collect_inbreeding"
  /\ UNCHANGED <<by_pk, stack>>

CallCollectInbreedingImage ==
  /\ pc = "start"
  /\ \E m \in Bounds :
       /\ arg_gen' = m
       /\ result' = collect_inbreeding_image(Subject, by_pk, m)
  /\ arg_pk' = Subject
  /\ pc' = "collect_inbreeding_image"
  /\ UNCHANGED <<by_pk, stack>>

\* root = build_tree(horses, key, generations)
CallBuildTree ==
  /\ pc = "start"
  /\ \E key \in Ids, g \in 1..MaxGen :
       /\ arg_pk' = key
       /\ arg_gen' = g
       /\ result' = build_tree(by_pk, key, g)
  /\ pc' = "build_tree"
  /\ UNCHANGED <<by_pk, stack>>

\* assign_rows(root, 0, generations), on the tree just built
CallAssignRows ==
  /\ pc = "build_tree"
  /\ result' = [heap |-> assign_rows(result.heap, result.node, 0, arg_gen).heap,
                node |-> result.node,
                ret |-> assign_rows(result.heap, result.node, 0, arg_gen).ret]
  /\ pc' = "assign_rows"
  /\ UNCHANGED <<by_pk, arg_pk, arg_gen, stack>>

\* the generation arguments tried on the entry points, invalid ones included
GenArgs == (0 - 1)..MaxGen

MainPedigree ==
  /\ pc = "start"
  /\ \E root \in Ids, g \in GenArgs :
       /\ arg_pk' = root
       /\ arg_gen' = g
       /\ result' = pedigree_main(by_pk, root, g)
  /\ pc' = "pedigree.main"
  /\ UNCHANGED <<by_pk, stack>>

MainMakePedigree ==
  /\ pc = "start"
  /\ \E pk \in Ids, g \in GenArgs :
       /\ arg_pk' = pk
       /\ arg_gen' = g
       /\ result' = make_pedigree_main(by_pk, pk, g)
  /\ pc' = "make_pedigree.main"
  /\ UNCHANGED <<by_pk, stack>>

MainMakePedigreeImage ==
  /\ pc = "start"
  /\ \E pk \in Ids, g \in GenArgs :
       /\ arg_pk' = pk
       /\ arg_gen' = g
       /\ result' = make_pedigree_image_main(by_pk, pk, g)
  /\ pc' = "make_pedigree_image.main"
  /\ UNCHANGED <<by_pk, stack>>

CallDrawChart ==
  /\ pc = "start"
  /\ \E pk \in Ids, g \in GenArgs :
       /\ arg_pk' = pk
       /\ arg_gen' = g
       /\ result' = draw_chart(pk, by_pk, g)
  /\ pc' = "draw_chart"
  /\ UNCHANGED <<by_pk, stack>>

\* draw_chart(pk, by_pk, max_depth, out_path), the wedges it draws
CallDrawWedges ==
  /\ pc = "start"
  /\ \E g \in 1..MaxGen :
       /\ arg_gen' = g
       /\ result' = [wedges |-> draw_chart_wedges(Subject, by_pk, g)]
  /\ arg_pk' = Subject
  /\ pc' = "draw_wedge"
  /\ UNCHANGED <<by_pk, stack>>

\* write_excel(pk, by_pk, out_path, max_depth) with the depth main clamps
\* the requested generations to: the cells it places
CallPlaceNodes ==
  /\ pc = "start"
  /\ \E g \in Bounds :
       /\ arg_gen' = clamp_depth(Subject, by_pk, g)
       /\ result' = place_nodes(Subject, by_pk, clamp_depth(Subject, by_pk, g))
  /\ arg_pk' = Subject
  /\ pc' = "place_node"
  /\ UNCHANGED <<by_pk, stack>>

\* ---- compute_max_depth called again and again on one store
MaxCalls == 3

\* result holds the calls made so far, the last one last
CallComputeMaxDepthAgain ==
  /\ pc \in {"start", "calls"}
  /\ Len(result) < MaxCalls
  /\ \E pk \in Ids :
       /\ arg_pk' = pk
       /\ result' = Append(result,
                           compute_max_depth_call(pk, by_pk,
                             IF Len(result) = 0 THEN [memo |-> <<>>, visiting |-> {}]
                             ELSE result[Len(result)]))
  /\ pc' = "calls"
  /\ UNCHANGED <<by_pk, arg_gen, stack>>

\* ---- the same calls, one step of the innermost frame at a time
Top == stack[Len(stack)]

\* the effect of one step r of the innermost frame
Apply(r) ==
  IF r.op = "return"
  THEN /\ stack' = SubSeq(stack, 1, Len(stack) - 1)
       /\ result' = r.st
       /\ pc' = IF Len(stack) = 1 THEN "returned" ELSE pc
  ELSE IF r.op = "stay"
  THEN /\ stack' = [stack EXCEPT ![Len(stack)] = r.frame]
       /\ result' = r.st
       /\ pc' = pc
  ELSE IF Len(stack) >= RecursionLimit
  THEN /\ pc' = "RecursionError"
       /\ UNCHANGED <<stack, result>>
  ELSE /\ stack' = Append([stack EXCEPT ![Len(stack)] = r.frame], r.callee)
       /\ result' = r.st
       /\ pc' = pc

StartComputeMaxDepth ==
  /\ pc = "start"
  /\ arg_pk' = Subject
  /\ result' = [fn |-> "compute_max_depth", memo |-> <<>>, visiting |-> {}, ret |-> 0]
  /\ stack' = <<DepthFrame(Subject)>>
  /\ pc' = "running"
  /\ UNCHANGED <<by_pk, arg_gen>>

StartCollectInbreeding ==
  /\ pc = "start"
  /\ \E m \in Bounds : arg_gen' = m
  /\ arg_pk' = Subject
  /\ result' = [fn |-> "collect_inbreeding", occurrences |-> <<>>, visiting |-> {},
                inbred |-> <<>>, subsumed |-> {}, ret |-> 0]
  /\ stack' = <<BodyFrame(Subject)>>
  /\ pc' = "running"
  /\ UNCHANGED by_pk

StartBuildTree ==
  /\ pc = "start"
  /\ \E g \in 1..MaxGen : arg_gen' = g
  /\ arg_pk' = Subject
  /\ result' = [fn |-> "build_tree", heap |-> <<>>, ret |-> 0]
  /\ stack' = <<BuildFrame(IF has(by_pk, Subject) THEN horse_of(by_pk, Subject)
                           ELSE UNKNOWN_HORSE, 0)>>
  /\ pc' = "running"
  /\ UNCHANGED by_pk

DepthForEnter ==
  /\ pc = "running" /\ Top.fn = "depth_for" /\ Top.at = "enter"
  /\ \E r \in {depth_for_enter(Top, result, by_pk)} : Apply(r)
  /\ UNCHANGED <<by_pk, arg_pk, arg_gen>>

DepthForResume ==
  /\ pc = "running" /\ Top.fn = "depth_for" /\ Top.at # "enter"
  /\ \E r \in {depth_for_resume(Top, result, by_pk)} : Apply(r)
  /\ UNCHANGED <<by_pk, arg_pk, arg_gen>>

WalkEnter ==
  /\ pc = "running" /\ Top.fn = "walk" /\ Top.at = "enter"
  /\ \E r \in {walk_enter(Top, result, by_pk, arg_gen)} : Apply(r)
  /\ UNCHANGED <<by_pk, arg_pk, arg_gen>>

WalkResume ==
  /\ pc = "running" /\ Top.fn = "walk" /\ Top.at # "enter"
  /\ \E r \in {walk_resume(Top, result, by_pk, arg_gen)} : Apply(r)
  /\ UNCHANGED <<by_pk, arg_pk, arg_gen>>

CollectInbreedingEnter ==
  /\ pc = "running" /\ Top.fn = "collect_inbreeding" /\ Top.at = "enter"
  /\ \E r \in {body_enter(Top, result, by_pk)} : Apply(r)
  /\ UNCHANGED <<by_pk, arg_pk, arg_gen>>

CollectInbreedingResume ==
  /\ pc = "running" /\ Top.fn = "collect_inbreeding" /\ Top.at # "enter"
  /\ \E r \in {body_resume(Top, result, by_pk)} : Apply(r)
  /\ UNCHANGED <<by_pk, arg_pk, arg_gen>>

BuildNodeEnter ==
  /\ pc = "running" /\ Top.fn = "build_node" /\ Top.at = "enter"
  /\ \E r \in {build_node_enter(Top, result, by_pk, arg_gen)} : Apply(r)
  /\ UNCHANGED <<by_pk, arg_pk, arg_gen>>

BuildNodeResume ==
  /\ pc = "running" /\ Top.fn = "build_node" /\ Top.at # "enter"
  /\ \E r \in {build_node_resume(Top, result, by_pk)} : Apply(r)
  /\ UNCHANGED <<by_pk, arg_pk, arg_gen>>

NextDepth == LoadRows \/ CallComputeMaxDepth
NextInbreeding == LoadRows \/ CallCollectInbreeding \/ CallCollectInbreedingImage
NextTree == LoadRows \/ CallBuildTree \/ CallAssignRows
NextMain ==
  LoadRows \/ MainPedigree \/ MainMakePedigree \/ MainMakePedigreeImage \/ CallDrawChart
NextChart == LoadRows \/ CallDrawWedges
NextGrid == LoadRows \/ CallPlaceNodes
NextCalls == LoadRows \/ CallComputeMaxDepthAgain
NextSteps ==
  \/ LoadRowsSteps
  \/ StartComputeMaxDepth \/ DepthForEnter \/ DepthForResume
  \/ StartCollectInbreeding \/ CollectInbreedingEnter \/ CollectInbreedingResume
  \/ WalkEnter \/ WalkResume
  \/ StartBuildTree \/ BuildNodeEnter \/ BuildNodeResume

\* the walks of both tools: the grid tool's step by step, the radial tool's
\* as one call
NextWalk == NextSteps \/ CallCollectInbreedingImage

Next == NextWalk \/ NextChart \/ NextGrid \/ NextDepth \/ NextInbreeding \/ NextTree \/ NextMain \/ NextCalls \/ NextSteps

Spec == Init /\ [][Next]_vars
SpecDepth == Init /\ [][NextDepth]_vars
SpecInbreeding == Init /\ [][NextInbreeding]_vars
SpecTree == Init /\ [][NextTree]_vars
SpecMain == Init /\ [][NextMain]_vars
SpecCalls == Init /\ [][NextCalls]_vars
SpecChart == Init /\ [][NextChart]_vars
SpecGrid == Init /\ [][NextGrid]_vars
SpecWalk == Init /\ [][NextWalk]_vars
\* The interpreter runs the innermost frame whenever there is one.
SpecSteps == Init /\ [][NextSteps]_vars /\ WF_vars(NextSteps)

\* ================================================================ claims
\* --------------------------------------------- reference notions of path
\* A link path is a non-empty sequence of "Sire" / "Dam" links of length
\* at most m, read from the subject.
LinkSeqs(m) == UNION {[1..n -> {"Sire", "Dam"}] : n \in 1..m}

\* the identifier the subject's record or the record of the last identifier
\* of ids names under link; "" when there is no such record or cell
Target(store, pk, ids, link) ==
  LET from == IF Len(ids) = 0 THEN pk ELSE ids[Len(ids)]
  IN IF ~has(store, from) THEN ""
     ELSE IF link = "Sire" THEN store[from].Sire ELSE store[from].Dam

\* the identifiers met along links, <<>> when the links cannot be followed
\* or would repeat an identifier
RECURSIVE IdPath(_, _, _)
IdPath(store, pk, links) ==
  IF Len(links) = 0 THEN <<>>
  ELSE
    LET before == IdPath(store, pk, SubSeq(links, 1, Len(links) - 1))
        t == Target(store, pk, before, links[Len(links)])
    IN IF Len(links) > 1 /\ before = <<>> THEN <<>>
       ELSE IF t = "" \/ InList(t, before) THEN <<>>
       ELSE Append(before, t)

\* the link paths of length <= m that end at identifier a
LinkPathsTo(store, pk, m, a) ==
  {l \in LinkSeqs(m) :
     LET ids == IdPath(store, pk, l) IN ids # <<>> /\ ids[Len(ids)] = a}

IdPathsTo(store, pk, m, a) ==
  {IdPath(store, pk, l) : l \in LinkPathsTo(store, pk, m, a)}

InbreedingDone == pc \in {"collect_inbreeding", "collect_inbreeding_image"}
InbredKeys == KeySet(result.inbred)
Reached(m) == {a \in Ids : LinkPathsTo(by_pk, arg_pk, m, a) # {}}

\* C2 (as stated): an identifier is a key of the inbreeding map iff at least
\* 2 distinct identifier sequences (paths within the bound, no identifier
\* repeated) lead from the subject's sire or dam to it.
C2_KeysByIdentifierPaths ==
  InbreedingDone =>
    \A a \in Ids :
      a \in InbredKeys <=> Cardinality(IdPathsTo(by_pk, arg_pk, arg_gen, a)) >= 2

\* C2 (amended): an identifier is a key of the inbreeding map iff at least 2
\* link paths lead to it, a path being a sequence of sire / dam links, so
\* that two paths through the same identifiers count as two when a record
\* names one identifier as both sire and dam.
C2_KeysByLinkPaths ==
  InbreedingDone =>
    \A a \in Ids :
      a \in InbredKeys <=> Cardinality(LinkPathsTo(by_pk, arg_pk, arg_gen, a)) >= 2

\* a key that only one identifier sequence leads to (through a record whose
\* sire and dam are the same identifier), next to an identifier reached once
C2_Witness ==
  /\ InbreedingDone
  /\ \E a \in InbredKeys : Cardinality(IdPathsTo(by_pk, arg_pk, arg_gen, a)) = 1
  /\ \E a \in InbredKeys : Cardinality(IdPathsTo(by_pk, arg_pk, arg_gen, a)) >= 2
  /\ \E a \in Reached(arg_gen) : a \notin InbredKeys

\* B occurs in path at a position at or before the position of A
AtOrBefore(path, B, A) ==
  \E i, j \in 1..Len(path) : path[i] = B /\ path[j] = A /\ i <= j

\* C3: A is in the subsumed set iff another key B occurs in every recorded
\* path of A at or before A; the subsumed ancestors remain keys of the map.
C3_SubsumedIffCovered ==
  InbreedingDone =>
    /\ result.subsumed \subseteq InbredKeys
    /\ \A A \in InbredKeys :
         A \in result.subsumed <=>
           \E B \in InbredKeys \ {A} :
             \A i \in 1..Len(DictGet(result.inbred, A).paths) :
               AtOrBefore(DictGet(result.inbred, A).paths[i], B, A)

\* a subsumed key, a key that is not, and a key B that lies on some but not
\* all of the paths of a key that is not subsumed
C3_Witness ==
  /\ InbreedingDone
  /\ result.subsumed # {}
  /\ \E A \in InbredKeys \ result.subsumed : \E B \in InbredKeys \ {A} :
       \E i \in 1..Len(DictGet(result.inbred, A).paths) :
         InList(B, DictGet(result.inbred, A).paths[i])

\* number of elements of s equal to x
Count(s, x) == Cardinality({i \in 1..Len(s) : s[i] = x})

\* 100 * sum of 0.5^g over the link paths to a, as a numerator over PctDen
PathPercentage(store, pk, m, a) ==
  LET P == LinkPathsTo(store, pk, m, a)
      RECURSIVE Sum(_)
      Sum(S) == IF S = {} THEN 0
                ELSE LET l == CHOOSE x \in S : TRUE
                     IN 100 * Pow2(MaxGen - Len(l)) + Sum(S \ {l})
  IN Sum(P)

\* the formula part of C4: one term 0.5^g per recorded occurrence, one
\* generation per occurrence in gens
C4_Formula ==
  \A a \in InbredKeys :
    LET e == DictGet(result.inbred, a)
        occs == DictGet(result.occurrences, a)
    IN /\ e.percentage = PathPercentage(by_pk, arg_pk, arg_gen, a)
       /\ e.percentage = 100 * SumSeq([i \in 1..Len(occs) |-> Pow2(MaxGen - occs[i].gen)])
       /\ Len(e.gens) = Len(occs)
       /\ \A g \in 1..MaxGen :
            Count(e.gens, g) = Cardinality({i \in 1..Len(occs) : occs[i].gen = g})

\* C4 (as stated): the percentage is 100 times the sum of 0.5^g over the
\* occurrences, gens holds one generation per occurrence; generations 2 and
\* 3 give 18.75 and generation 2 twice gives 25.0.
C4_PercentageAsStated ==
  InbreedingDone =>
    /\ C4_Formula
    /\ \A a \in InbredKeys :
         LET e == DictGet(result.inbred, a)
         IN /\ e.gens = <<3, 2>> => 4 * e.percentage = 75 * PctDen
            /\ e.gens = <<2, 2>> => e.percentage = 25 * PctDen

\* C4 (amended): the same formula; generations 2 and 3 give 37.5 and
\* generation 2 twice gives 50.0.
C4_Percentage ==
  InbreedingDone =>
    /\ C4_Formula
    /\ \A a \in InbredKeys :
         LET e == DictGet(result.inbred, a)
         IN /\ e.gens = <<3, 2>> => 2 * e.percentage = 75 * PctDen
            /\ e.gens = <<2, 2>> => e.percentage = 50 * PctDen

\* a key recorded once at generation 2 and once at generation 3, next to a
\* key recorded twice at one generation
C4_Witness ==
  /\ InbreedingDone
  /\ \E a \in InbredKeys : DictGet(result.inbred, a).gens = <<3, 2>>
  /\ \E a \in InbredKeys : \E g \in 1..MaxGen : DictGet(result.inbred, a).gens = <<g, g>>

\* ------------------------------------------------------------------ C5
\* the largest number of links on a path from node that follows links only
\* out of identifiers that have a record and are not earlier on the path
RECURSIVE LongestPath(_, _, _)
LongestPath(store, node, onpath) ==
  IF node \in onpath \/ ~has(store, node) THEN 0
  ELSE
    LET next == {store[node].Sire, store[node].Dam} \ {""}
    IN IF next = {} THEN 0
       ELSE 1 + Max({LongestPath(store, n, onpath \cup {node}) : n \in next})

\* C5 (as stated): compute_max_depth returns the largest number of links on
\* any such path from the start identifier, in every store, cyclic or not.
C5_DepthIsLongestPath ==
  pc = "compute_max_depth" => result.depth = LongestPath(by_pk, arg_pk, {})

\* ------------------------------------------------------------- C8
\* the walks (first links) through which identifier a is reached
SidesTo(store, pk, m, a) == {l[1] : l \in LinkPathsTo(store, pk, m, a)}

\* every key has exactly one tag, "sire" / "dam" / "both" by the walks that
\* reached it
C8_Tags ==
  /\ KeySet(result.inbred_types) = InbredKeys
  /\ \A a \in InbredKeys :
       /\ Cardinality({i \in 1..Len(result.inbred_types) :
                         result.inbred_types[i].key = a}) = 1
       /\ LET tag == DictGet(result.inbred_types, a)
              sides == SidesTo(by_pk, arg_pk, arg_gen, a)
          IN /\ tag = "sire" <=> sides = {"Sire"}
             /\ tag = "dam" <=> sides = {"Dam"}
             /\ tag = "both" <=> sides = {"Sire", "Dam"}

\* a is a key reached exactly once at generation 2 through each parent
OnceThroughEachParent(a) ==
  /\ a \in InbredKeys
  /\ DictGet(result.inbred, a).gens = <<2, 2>>
  /\ LET occs == DictGet(result.occurrences, a)
     IN {occs[i].side : i \in 1..Len(occs)} = {"Sire", "Dam"}

\* C8 (as stated): the tags, and a common ancestor reached once at
\* generation 2 through each parent has gens [2,2], tag "both" and is not
\* subsumed.
C8_TagsAsStated ==
  pc = "collect_inbreeding_image" =>
    /\ C8_Tags
    /\ \A a \in Ids :
         OnceThroughEachParent(a) =>
           DictGet(result.inbred_types, a) = "both" /\ a \notin result.subsumed

\* C8 (amended): the tags, and a common ancestor reached once at generation
\* 2 through each parent has gens [2,2] and tag "both"; it is not subsumed
\* when the subject's sire and dam are different identifiers, and subsumed
\* (by that identifier) when they are the same identifier.
C8_TagsAndCommonAncestor ==
  pc = "collect_inbreeding_image" =>
    /\ C8_Tags
    /\ \A a \in Ids :
         OnceThroughEachParent(a) =>
           /\ DictGet(result.inbred_types, a) = "both"
           /\ a \in result.subsumed <=> by_pk[arg_pk].Sire = by_pk[arg_pk].Dam

\* a key reached once at generation 2 through two different parents, with
\* bound 3 and a further ancestor behind it
C8_Witness ==
  /\ pc = "collect_inbreeding_image"
  /\ arg_gen = 3
  /\ has(by_pk, arg_pk)
  /\ by_pk[arg_pk].Sire # by_pk[arg_pk].Dam
  /\ \E a \in Ids : /\ OnceThroughEachParent(a)
                    /\ a \notin result.subsumed
                    /\ has(by_pk, a)
                    /\ by_pk[a].Sire \notin {"", arg_pk}

\* ------------------------------------------------------ C1, C6, C9: tree
TreeBuilt == pc \in {"build_tree", "assign_rows"}
Nodes == 1..Len(result.heap)
IsLeaf(n) == result.heap[n].sire = 0 /\ result.heap[n].dam = 0

\* number of leaves of the subtree of node n
RECURSIVE LeafCount(_, _)
LeafCount(heap, n) ==
  IF heap[n].sire = 0 /\ heap[n].dam = 0 THEN 1
  ELSE (IF heap[n].sire # 0 THEN LeafCount(heap, heap[n].sire) ELSE 0)
       + (IF heap[n].dam # 0 THEN LeafCount(heap, heap[n].dam) ELSE 0)

\* C1: after build_tree and assign_rows with the same G, every span has the
\* length of the subtree's leaf count, a leaf's span has length 1, an inner
\* node's span is its sire child's span immediately followed by its dam
\* child's span, and the root's span is [0, 2^(G-1) - 1].
C1_SpansPartition ==
  pc = "assign_rows" =>
    LET heap == result.heap IN
    /\ \A n \in Nodes :
         /\ heap[n].row_end - heap[n].row_start + 1 = LeafCount(heap, n)
         /\ IsLeaf(n) => heap[n].row_end = heap[n].row_start
         /\ ~IsLeaf(n) =>
              /\ heap[n].sire # 0 /\ heap[n].dam # 0
              /\ heap[n].row_start = heap[heap[n].sire].row_start
              /\ heap[heap[n].sire].row_end + 1 = heap[heap[n].dam].row_start
              /\ heap[n].row_end = heap[heap[n].dam].row_end
    /\ heap[result.node].row_start = 0
    /\ heap[result.node].row_end = Pow2(arg_gen - 1) - 1

\* rows assigned to a tree of MaxGen generations in which the data runs out
\* before the bound on one side and not on the other
C1_Witness ==
  /\ pc = "assign_rows"
  /\ arg_gen = MaxGen
  /\ \E n, m \in Nodes :
       /\ result.heap[n].depth = MaxGen - 1 /\ result.heap[n].horse.is_placeholder
       /\ result.heap[m].depth = MaxGen - 1 /\ ~result.heap[m].horse.is_placeholder
       /\ result.heap[m].row_start > 0

\* the horse build_node must hang under a node for the parent cell key
ExpectedChild(store, key) ==
  IF key # "" /\ has(store, key) THEN horse_of(store, key) ELSE placeholder_horse

\* C6: build_tree returns a complete binary tree of G levels: below depth
\* G-1 every node has a sire and a dam child one level deeper, carrying the
\* record of the parent's sire / dam identifier or else a placeholder; nodes
\* at depth G-1 have no children; no node is shared, 2^G - 1 nodes in all.
C6_CompleteTree ==
  TreeBuilt =>
    LET heap == result.heap IN
    /\ heap[result.node].depth = 0
    /\ \A n \in Nodes :
         /\ heap[n].depth < arg_gen - 1 =>
              /\ heap[n].sire \in Nodes /\ heap[n].dam \in Nodes
              /\ heap[heap[n].sire].depth = heap[n].depth + 1
              /\ heap[heap[n].dam].depth = heap[n].depth + 1
              /\ heap[heap[n].sire].horse = ExpectedChild(by_pk, heap[n].horse.sire)
              /\ heap[heap[n].dam].horse = ExpectedChild(by_pk, heap[n].horse.dam)
         /\ heap[n].depth >= arg_gen - 1 => IsLeaf(n)
         /\ heap[n].depth <= arg_gen - 1
         \* n is the root or the child of exactly one node, on one side
         /\ Cardinality({<<q, side>> \in Nodes \X {"sire", "dam"} :
                           IF side = "sire" THEN heap[q].sire = n ELSE heap[q].dam = n})
              = IF n = result.node THEN 0 ELSE 1
    /\ Len(heap) = Pow2(arg_gen) - 1

\* a tree of MaxGen levels in which an identifier recurs, a placeholder
\* stands for a missing record and a leaf has further ancestry in the store
C6_Witness ==
  /\ pc = "build_tree"
  /\ arg_gen = MaxGen
  /\ \E n, m \in Nodes : n # m /\ result.heap[n].horse.key # ""
                           /\ result.heap[n].horse = result.heap[m].horse
  /\ \E n \in Nodes : result.heap[n].horse.is_placeholder
  /\ \E n \in Nodes : /\ result.heap[n].depth = MaxGen - 1
                      /\ result.heap[n].horse.sire # ""
                      /\ has(by_pk, result.heap[n].horse.sire)

\* C9: for a root key without a record, build_tree with G = 1 returns the
\* single unknown-root node (key UNKNOWN, not a placeholder), and with G > 1
\* that root has exactly two children at depth 1, both placeholders.
C9_UnknownRoot ==
  (pc = "build_tree" /\ ~has(by_pk, arg_pk)) =>
    LET heap == result.heap
        root == heap[result.node]
    IN /\ root.horse = UNKNOWN_HORSE
       /\ root.horse.key = "UNKNOWN" /\ ~root.horse.is_placeholder
       /\ arg_gen = 1 => Len(heap) = 1 /\ root.sire = 0 /\ root.dam = 0
       /\ arg_gen > 1 =>
            /\ root.sire # 0 /\ root.dam # 0 /\ root.sire # root.dam
            /\ {n \in Nodes : heap[n].depth = 1} = {root.sire, root.dam}
            /\ heap[root.sire].horse.is_placeholder
            /\ heap[root.dam].horse.is_placeholder

\* a tree of more than one generation built for a key that has no record
\* in a store that has records
C9_Witness ==
  /\ pc = "build_tree"
  /\ ~has(by_pk, arg_pk)
  /\ DOMAIN by_pk # {}
  /\ arg_gen > 1

\* ----------------------------------------------------------------- C10
EntryDone == pc \in {"pedigree.main", "make_pedigree.main",
                     "make_pedigree_image.main", "draw_chart"}
\* the generation argument is valid for the entry point that ran
ValidBound == IF pc \in {"make_pedigree.main"} THEN arg_gen >= 0 ELSE arg_gen >= 1
Completed == result.exit = "ok" /\ result.written

\* identifiers named by a cell reachable from the subject that have no record
RECURSIVE Ancestors(_, _, _)
Ancestors(store, frontier, seen) ==
  LET next == UNION {IF has(store, x) THEN {store[x].Sire, store[x].Dam} \ {""} ELSE {}
                     : x \in frontier}
  IN IF next \subseteq seen THEN seen ELSE Ancestors(store, next \ seen, seen \cup next)
\* some identifier is its own ancestor
Cyclic(store) == \E x \in DOMAIN store : x \in Ancestors(store, {x}, {})
MissingAncestors == {x \in Ancestors(by_pk, {arg_pk}, {}) : ~has(by_pk, x)}
HasParentCell == has(by_pk, arg_pk) /\ {by_pk[arg_pk].Sire, by_pk[arg_pk].Dam} # {""}

Returned ==
  /\ pc = "returned"
  /\ stack = <<>>
  /\ result.fn = "compute_max_depth" =>
       result.ret = compute_max_depth(arg_pk, by_pk) /\ result.ret \in 0..(NumIds + 1)
  /\ result.fn = "build_tree" =>
       /\ result.heap = build_tree(by_pk, arg_pk, arg_gen).heap
       /\ result.ret = 1
       /\ Len(result.heap) = Pow2(arg_gen) - 1
  /\ result.fn = "collect_inbreeding" =>
       /\ result.occurrences = collect_inbreeding(arg_pk, by_pk, arg_gen).occurrences
       /\ result.inbred = collect_inbreeding(arg_pk, by_pk, arg_gen).inbred
       /\ result.subsumed = collect_inbreeding(arg_pk, by_pk, arg_gen).subsumed
       /\ result.visiting = {}

\* C7: in every store with cyclic parentage compute_max_depth, build_tree
\* (G >= 1) and collect_inbreeding (M >= 0) terminate without error and
\* return a fully constructed result.
C7_CyclicStoresTerminate ==
  (pc = "start" /\ Cyclic(by_pk)) ~> Returned

\* collect_inbreeding returned for a subject that is its own sire, after a
\* walk that was cut at the subject
C7_Witness ==
  /\ Returned
  /\ result.fn = "collect_inbreeding"
  /\ arg_gen = MaxGen
  /\ has(by_pk, arg_pk) /\ by_pk[arg_pk].Sire = arg_pk
  /\ result.occurrences # <<>>

\* ----------------------------------------------------------------- C11
MainDone == pc \in {"pedigree.main", "make_pedigree.main", "make_pedigree_image.main"}
\* the generation argument the entry point that ran must refuse
InvalidBound == IF pc = "make_pedigree_image.main" THEN arg_gen < 1 ELSE arg_gen < 0
\* no tree was built, no inbreeding computed, nothing written
NoWork == result.tree = <<>> /\ result.inbreeding = <<>> /\ ~result.written

\* C11 (as stated): an invalid generation bound ends every entry point in
\* an invalid-argument failure raised before any tree is built, inbreeding
\* computed or output written; every call returns a complete result or
\* fails before any work begins.
C11_InvalidBoundFailsBeforeWork ==
  MainDone =>
    /\ InvalidBound => result.exit = "SystemExit" /\ NoWork
    /\ Completed \/ (result.exit # "ok" /\ NoWork)

\* ----------------------------------------------------------------- C12
\* C12: in any run of calls of compute_max_depth on one store, two calls
\* for the same identifier return the same value, every call returns what
\* a lone call for its identifier returns whatever calls came before, and
\* no identifier is left in the visiting set when a call returns.
C12_CallsIndependent ==
  pc = "calls" =>
    /\ \A i, j \in 1..Len(result) :
         result[i].pk = result[j].pk => result[i].ret = result[j].ret
    /\ \A i \in 1..Len(result) :
         /\ result[i].ret = compute_max_depth(result[i].pk, by_pk)
         /\ result[i].visiting = {}

\* a call repeated after a call for another identifier, all on one parent
\* cycle, each leaving a memo entry for the others
C12_Witness ==
  /\ pc = "calls"
  /\ Len(result) = MaxCalls
  /\ result[1].pk = result[3].pk /\ result[2].pk # result[1].pk
  /\ result[1].ret > 1
  /\ result[1].pk \in DOMAIN result[2].memo
  /\ result[2].pk \in DOMAIN result[1].memo
  /\ result[2].pk \in Ancestors(by_pk, {result[2].pk}, {})

\* ----------------------------------------------------------------- C13
\* C13 (as stated): for every store, subject and requested bound R >= 0,
\* collect_inbreeding with the clamped bound clamp_depth(subject, store, R)
\* returns the same inbreeding map and the same subsumed set as
\* collect_inbreeding with bound R.
C13_ClampKeepsInbreeding ==
  pc = "collect_inbreeding" =>
    LET clamped == collect_inbreeding(arg_pk, by_pk, clamp_depth(arg_pk, by_pk, arg_gen))
    IN /\ clamped.inbred = result.inbred
       /\ clamped.subsumed = result.subsumed

\* ----------------------------------------------------------------- C14
\* what the recurrence gives for id from the depths of its parents
DepthByParents(store, id) ==
  IF ~has(store, id) THEN 0
  ELSE Max({0}
           \cup (IF store[id].Sire # ""
                 THEN {1 + compute_max_depth(store[id].Sire, store)} ELSE {})
           \cup (IF store[id].Dam # ""
                 THEN {1 + compute_max_depth(store[id].Dam, store)} ELSE {}))

\* C14: in a store without parent cycles compute_max_depth(id) is 0 when id
\* has no record and otherwise the maximum of 0, 1 + the sire's depth when
\* the sire cell is non-empty and 1 + the dam's depth when the dam cell is
\* non-empty; a record without parents yields 0 and a parent cell naming a
\* missing record contributes exactly 1.
C14_DepthRecurrence ==
  (pc = "compute_max_depth" /\ ~Cyclic(by_pk)) =>
    /\ result.depth = DepthByParents(by_pk, arg_pk)
    /\ (has(by_pk, arg_pk) /\ by_pk[arg_pk].Sire = "" /\ by_pk[arg_pk].Dam = "")
         => result.depth = 0
    /\ (has(by_pk, arg_pk) /\ {by_pk[arg_pk].Sire, by_pk[arg_pk].Dam} \ {""} # {}
         /\ \A c \in {by_pk[arg_pk].Sire, by_pk[arg_pk].Dam} \ {""} : ~has(by_pk, c))
         => result.depth = 1

\* a depth of 3 in a store without cycles, the deeper side being the dam's,
\* with a sire that is met again further up and a missing record at the end
C14_Witness ==
  /\ pc = "compute_max_depth"
  /\ ~Cyclic(by_pk)
  /\ has(by_pk, arg_pk)
  /\ result.depth = 3
  /\ by_pk[arg_pk].Sire # "" /\ by_pk[arg_pk].Dam # ""
  /\ compute_max_depth(by_pk[arg_pk].Sire, by_pk) < compute_max_depth(by_pk[arg_pk].Dam, by_pk)
  /\ by_pk[arg_pk].Sire \in Ancestors(by_pk, {by_pk[arg_pk].Dam}, {})
  /\ \E x \in Ancestors(by_pk, {arg_pk}, {}) : ~has(by_pk, x)

\* ----------------------------------------------------------------- C15
IdsOf(path) == {path[i] : i \in 1..Len(path)}

\* occ is a well-formed occurrence of ancestor a for subject pk and bound m
OccurrenceOk(store, pk, m, a, occ) ==
  /\ 1 <= occ.gen /\ occ.gen <= m
  /\ Len(occ.path) = occ.gen
  /\ has(store, pk) /\ occ.path[1] \in {store[pk].Sire, store[pk].Dam} \ {""}
  /\ occ.path[Len(occ.path)] = a
  /\ \A i \in 1..(Len(occ.path) - 1) :
       /\ has(store, occ.path[i])
       /\ occ.path[i + 1] \in {store[occ.path[i]].Sire, store[occ.path[i]].Dam} \ {""}
  /\ \A i, j \in 1..Len(occ.path) : i # j => occ.path[i] # occ.path[j]

OccurrencesOk(occurrences) ==
  \A k \in 1..Len(occurrences) : \A i \in 1..Len(occurrences[k].val) :
    OccurrenceOk(by_pk, arg_pk, arg_gen, occurrences[k].key, occurrences[k].val[i])

\* C15: every occurrence the walk has recorded has 1 <= gen <= M and a path
\* of gen identifiers from the subject's sire or dam to the ancestor along
\* sire / dam cells without a repeat; at every entry to walk the visiting
\* set is the set of identifiers of the path so far, and it is that of the
\* caller's path again when the call has returned.
C15_WalkInvariant ==
  /\ (pc \in {"running", "returned"} /\ result.fn = "collect_inbreeding") =>
       /\ OccurrencesOk(result.occurrences)
       /\ (pc = "running" /\ Top.fn = "walk") =>
            result.visiting = IdsOf(IF Top.at = "enter" THEN Top.path ELSE Top.new_path)
       /\ pc = "returned" => result.visiting = {}
  /\ pc = "collect_inbreeding_image" =>
       /\ OccurrencesOk(result.occurrences)
       /\ \A k \in 1..Len(result.occurrences) :
            \A i \in 1..Len(result.occurrences[k].val) :
              LET occ == result.occurrences[k].val[i]
              IN occ.path[1] = IF occ.side = "Sire" THEN by_pk[arg_pk].Sire
                               ELSE by_pk[arg_pk].Dam

\* walk entered at generation MaxGen for an identifier that is on the path
\* already, after a call for another identifier has returned
C15_Witness ==
  /\ pc = "running" /\ result.fn = "collect_inbreeding"
  /\ Top.fn = "walk" /\ Top.at = "enter"
  /\ Top.gen = MaxGen /\ arg_gen = MaxGen
  /\ Top.node_pk \in result.visiting
  /\ \E k \in 1..Len(result.occurrences) :
       result.occurrences[k].key \notin result.visiting

\* ----------------------------------------------------------------- C16
Wedges == result.wedges
\* the wedges drawn by the call that drew wedge p (by draw_chart for p = 0)
\* for the parent cell via
ChildWedges(p, via) == {c \in 1..Len(Wedges) : Wedges[c].from = p /\ Wedges[c].via = via}
\* the sector that is split among the wedges drawn from p
SectorOf(p) == IF p = 0 THEN <<radians(0 - 90), radians(270)>>
               ELSE <<Wedges[p].angle_start, Wedges[p].angle_end>>

\* no wedge is empty and at most one wedge is drawn per parent cell
C16_Sectors ==
  /\ \A c \in 1..Len(Wedges) : Wedges[c].angle_start < Wedges[c].angle_end
  /\ \A p \in 0..Len(Wedges) : \A via \in {"Sire", "Dam"} :
       Cardinality(ChildWedges(p, via)) <= 1

\* C16 (as stated): the two children's sectors partition the parent's
\* sector and the sire-side sector is the first part, before the dam-side
\* sector in angle, as the sire's row span is before the dam's.
C16_SireSectorFirst ==
  pc = "draw_wedge" =>
    /\ C16_Sectors
    /\ \A p \in 0..Len(Wedges) :
         /\ \A s \in ChildWedges(p, "Sire") :
              /\ Wedges[s].angle_start = SectorOf(p)[1]
              /\ 2 * Wedges[s].angle_end = SectorOf(p)[1] + SectorOf(p)[2]
         /\ \A d \in ChildWedges(p, "Dam") :
              /\ 2 * Wedges[d].angle_start = SectorOf(p)[1] + SectorOf(p)[2]
              /\ Wedges[d].angle_end = SectorOf(p)[2]

\* C16 (amended): the two children's sectors partition the parent's sector
\* in two halves and the dam-side sector is the first half in angle, the
\* sire-side sector the second: [angle_start, mid] and [mid, angle_end],
\* and [-90, 90] and [90, 270] degrees at the top level.
C16_DamSectorFirst ==
  pc = "draw_wedge" =>
    /\ C16_Sectors
    /\ \A p \in 0..Len(Wedges) :
         /\ \A d \in ChildWedges(p, "Dam") :
              /\ Wedges[d].angle_start = SectorOf(p)[1]
              /\ 2 * Wedges[d].angle_end = SectorOf(p)[1] + SectorOf(p)[2]
         /\ \A s \in ChildWedges(p, "Sire") :
              /\ 2 * Wedges[s].angle_start = SectorOf(p)[1] + SectorOf(p)[2]
              /\ Wedges[s].angle_end = SectorOf(p)[2]
         /\ \A s \in ChildWedges(p, "Sire") : \A d \in ChildWedges(p, "Dam") :
              Wedges[d].angle_end = Wedges[s].angle_start

\* a chart of MaxGen rings with a wedge split in two in each half of the
\* circle, and a wedge with a single child
C16_Witness ==
  /\ pc = "draw_wedge"
  /\ arg_gen = MaxGen
  /\ \E p, q \in 1..Len(Wedges) :
       /\ Wedges[p].angle_start >= radians(90) /\ Wedges[q].angle_end <= radians(90)
       /\ Wedges[p].gen = MaxGen - 1 /\ Wedges[q].gen = MaxGen - 1
       /\ ChildWedges(p, "Sire") # {} /\ ChildWedges(p, "Dam") # {}
       /\ ChildWedges(q, "Sire") # {} /\ ChildWedges(q, "Dam") # {}
  /\ \E p \in 1..Len(Wedges) : ChildWedges(p, "Sire") # {} /\ ChildWedges(p, "Dam") = {}

\* ----------------------------------------------------------------- C17
\* other subsumes ancestor: the test that makes the loops add ancestor
Subsumes(other, ancestor) ==
  /\ other # ancestor
  /\ all_contained(DictGet(result.inbred, ancestor).paths, 1, ancestor, other)

\* the inbreeding map with its entries in another order
IterationOrders(n) == {f \in [1..n -> 1..n] : \A i, j \in 1..n : i # j => f[i] # f[j]}
Reordered(inbred, f) == [i \in 1..Len(inbred) |-> inbred[f[i]]]

\* C17: the subsumption relation among the candidates has no cycle (every
\* non-empty set of candidates has a member that no other member
\* subsumes), the subsumed set is the same for every iteration order of
\* the candidates, and a non-empty inbreeding map leaves a non-empty report.
C17_SubsumptionAcyclic ==
  InbreedingDone =>
    /\ \A S \in SUBSET InbredKeys :
         S # {} => \E A \in S : \A B \in S : ~Subsumes(B, A)
    /\ \A A, B \in InbredKeys : ~(Subsumes(A, B) /\ Subsumes(B, A))
    /\ \A f \in IterationOrders(Len(result.inbred)) :
         subsumed_of(Reordered(result.inbred, f)) = result.subsumed
    /\ InbredKeys # {} => InbredKeys \ result.subsumed # {}

\* three candidates on a parent cycle, one subsuming another, with a
\* candidate that lies on a path of another after it
C17_Witness ==
  /\ InbreedingDone
  /\ Cyclic(by_pk)
  /\ Cardinality(InbredKeys) >= 3
  /\ \E A, B \in InbredKeys : Subsumes(B, A)
  /\ \E A, B \in InbredKeys :
       /\ A # B /\ ~Subsumes(B, A) /\ ~Subsumes(A, B)
       /\ \E i \in 1..Len(DictGet(result.inbred, A).paths) :
            InList(B, DictGet(result.inbred, A).paths[i])
       /\ \E i \in 1..Len(DictGet(result.inbred, B).paths) :
            InList(A, DictGet(result.inbred, B).paths[i])

\* ----------------------------------------------------------------- C18
PlaceCalls == result.calls
\* the row range a call was made for: the whole grid for the two calls of
\* write_excel, the range of the calling place_node otherwise
ParentRows(c) ==
  IF c.from = 0 THEN <<0, Pow2(arg_gen) - 1>>
  ELSE <<PlaceCalls[c.from].row_start, PlaceCalls[c.from].row_end>>
\* first and second half of a row range
FirstHalf(r) == <<r[1], r[1] + ((r[2] - r[1] + 1) \div 2) - 1>>
SecondHalf(r) == <<r[1] + ((r[2] - r[1] + 1) \div 2), r[2]>>

\* C18: in write_excel with clamped depth D >= 1 every call of place_node
\* has 0 <= gen <= D - 1 and a row range of exactly 2^(D-1-gen) rows inside
\* [0, 2^D - 1]; the sire call gets the first half of its parent's range and
\* the dam call the second half; the row ranges of two cells of one column
\* never overlap, in stores with cyclic parentage too.
C18_RowRanges ==
  (pc = "place_node" /\ arg_gen >= 1) =>
    /\ \A i \in 1..Len(PlaceCalls) :
         LET c == PlaceCalls[i] IN
         /\ 0 <= c.gen /\ c.gen <= arg_gen - 1
         /\ c.row_end - c.row_start + 1 = Pow2(arg_gen - 1 - c.gen)
         /\ 0 <= c.row_start /\ c.row_start <= c.row_end
         /\ c.row_end <= Pow2(arg_gen) - 1
         /\ c.via = "Sire" => <<c.row_start, c.row_end>> = FirstHalf(ParentRows(c))
         /\ c.via = "Dam" => <<c.row_start, c.row_end>> = SecondHalf(ParentRows(c))
    /\ \A i, j \in 1..Len(PlaceCalls) :
         (i # j /\ PlaceCalls[i].gen = PlaceCalls[j].gen) =>
           \/ PlaceCalls[i].row_end < PlaceCalls[j].row_start
           \/ PlaceCalls[j].row_end < PlaceCalls[i].row_start

\* a grid of MaxGen columns on a store with a parent cycle: a cell met again
\* on its own line is labelled "cycle", and cells of the last column were
\* placed for a sire and for a dam
C18_Witness ==
  /\ pc = "place_node"
  /\ arg_gen = MaxGen
  /\ Cyclic(by_pk)
  /\ \E i \in 1..Len(PlaceCalls) : PlaceCalls[i].note = "cycle"
  /\ \E i, j \in 1..Len(PlaceCalls) :
       /\ PlaceCalls[i].gen = MaxGen - 1 /\ PlaceCalls[i].via = "Sire"
       /\ PlaceCalls[j].gen = MaxGen - 1 /\ PlaceCalls[j].via = "Dam"
       /\ PlaceCalls[i].from = PlaceCalls[j].from
====
